---- MODULE Spec2Model ----
(***************************************************************************)
(* Model of ReportPageComponent (SecurityReport.js): the component's       *)
(* lifecycle (constructor, componentDidMount, the four fetch callbacks,    *)
(* componentDidUpdate, componentWillUnmount) and its render() with the     *)
(* section generators.                                                     *)
(*                                                                         *)
(* JavaScript values are encoded as follows.  An object is a function from *)
(* its own enumerable keys to values; a missing key is a key outside       *)
(* DOMAIN.  The primitives undefined, null, true and false that an issue   *)
(* field may hold are the strings "undefined", "null", "true", "false".    *)
(* A report is [ref, obj]: ref is the identity of the object (what !==     *)
(* compares), obj its keys and values.  React elements are records.        *)
(***************************************************************************)
EXTENDS Integers, Sequences, FiniteSets, TLC

VARIABLES
  phase,        \* "constructed" | "mounted" | "unmounted"
  props,        \* this.props: [report]
  state,        \* this.state: report, stolenCredentials, configuredCredentials, agents, machines
  fetch,        \* per fetch started on mount: "idle" | "pending" | "done" | "failed"
  response,     \* the body the server answers each fetch with, if it answers
  interval,     \* this.interval
  timers,       \* the timers armed in the host
  rendered,     \* the value returned by the last render() call
  lateUpdates,  \* setState calls issued after componentWillUnmount
  event         \* the handler that ran last

vars == <<phase, props, state, fetch, response, interval, timers, rendered, lateUpdates, event>>

(***************************************************************************)
(* Bounds of the model.                                                    *)
(***************************************************************************)
MaxAgents == 3
MaxIssues == 2
MaxScanned == 2

(***************************************************************************)
(* Plain helpers.                                                          *)
(***************************************************************************)
Range(s) == {s[i] : i \in 1..Len(s)}

RECURSIVE Concat(_)
Concat(ss) == IF ss = <<>> THEN <<>> ELSE Head(ss) \o Concat(Tail(ss))

\* Array.prototype.map
Map(s, Op(_)) == [i \in 1..Len(s) |-> Op(s[i])]

\* All sequences over S of length at most n.
SeqUpTo(S, n) == UNION {[1..k -> S] : k \in 0..n}

\* obj.key, which is undefined when the key is missing
Get(o, k) == IF k \in DOMAIN o THEN o[k] ELSE "undefined"

\* _.has(obj, key)
Has(o, k) == k \in DOMAIN o

\* Object.keys(obj).length
NumKeys(o) == Cardinality(DOMAIN o)

Slots == {"stolenCredentials", "configuredCredentials", "agents", "machines"}

(***************************************************************************)
(* Collaborators imported from ../utils/ServerUtils and                    *)
(* ./security/issues/TunnelIssue.  An agent is [id, machine_id, manual,    *)
(* relay]: manual is the manually-started flag, relay the id of the        *)
(* machine the agent's traffic was relayed through (0: none).  A machine   *)
(* is [id, hostname, ips].                                                 *)
(***************************************************************************)
NoMachine == [missing |-> TRUE]

UnknownHostname == "Unknown"

getMachineByID(id, machines) ==
  LET hits == SelectSeq(machines, LAMBDA m : m.id = id)
  IN  IF hits = <<>> THEN NoMachine ELSE hits[1]

getMachineByAgent(agent, machines) == getMachineByID(agent.machine_id, machines)

getMachineHostname(machine) ==
  IF machine = NoMachine THEN UnknownHostname ELSE machine.hostname

getMachineIPs(machine) ==
  IF machine = NoMachine THEN <<>> ELSE machine.ips

getManuallyStartedAgents(agents) == SelectSeq(agents, LAMBDA a : a.manual)

\* One tunnel per agent that reached the island through another machine, when
\* both machines are known.
getAllTunnels(agents, machines) ==
  LET relayed == SelectSeq(agents, LAMBDA a :
                   /\ a.relay # 0
                   /\ getMachineByAgent(a, machines) # NoMachine
                   /\ getMachineByID(a.relay, machines) # NoMachine)
  IN  Map(relayed, LAMBDA a : [agent_machine |-> a.machine_id, agent_tunnel |-> a.relay])

Null == [tag |-> "null"]

\* The tunnel report of the machine that relayed traffic, or null.
tunnelIssueReportByMachine(machineId, allTunnels) ==
  LET mine == SelectSeq(allTunnels, LAMBDA t : t.agent_tunnel = machineId)
  IN  IF mine = <<>> THEN Null ELSE [tag |-> "TunnelIssue", tunnels |-> mine]

crossSegmentIssueReport(x) == [tag |-> "li", crossSegmentIssue |-> x]

zerologonOverviewWithFailedPassResetWarning == [tag |-> "ZerologonWarning"]

(***************************************************************************)
(* JavaScript and React built-ins the component uses.                      *)
(***************************************************************************)
\* The keys a recommendations.issues object may have, in Object.keys order
\* (integer-like keys ascend), and parseInt of each.
KeyOrder == <<"1", "2", "3">>

parseInt(k) == CASE k = "1" -> 1 [] k = "2" -> 2 [] k = "3" -> 3

ObjectKeys(o) == SelectSeq(KeyOrder, LAMBDA k : k \in DOMAIN o)

\* [...new Set(list)]: insertion order, each value once
SpreadNewSet(list) ==
  LET F[i \in 0..Len(list)] ==
        IF i = 0 THEN <<>>
        ELSE IF list[i] \in Range(F[i - 1]) THEN F[i - 1] ELSE Append(F[i - 1], list[i])
  IN  F[Len(list)]

\* a / b on JavaScript numbers, for integers a >= 0 and b >= 0
NaN == [kind |-> "NaN"]

Infinity == [kind |-> "Infinity"]

Divide(a, b) ==
  IF b = 0 THEN (IF a = 0 THEN NaN ELSE Infinity)
  ELSE [kind |-> "finite", num |-> a, den |-> b]

\* Math.round: the nearest integer, halves up; NaN and Infinity stay
MathRound(v) ==
  IF v.kind = "finite"
  THEN [kind |-> "finite", num |-> (2 * v.num + v.den) \div (2 * v.den), den |-> 1]
  ELSE v

EmptyText == [tag |-> "text", text |-> ""]

EmptyFragment == [tag |-> "Fragment", children |-> <<>>]

\* What React puts in the document for a list of children: null and '' render nothing.
Visible(children) == SelectSeq(children, LAMBDA c : c # Null /\ c # EmptyText)

\* setState({slot: value}): a shallow merge into the current state
SetStateReplace(st, slot, value) ==
  [k \in DOMAIN st |-> IF k = slot THEN value ELSE IF k = "report" THEN st[k] ELSE <<>>]

SetState(st, slot, value) == [st EXCEPT ![slot] = value]

(***************************************************************************)
(* render() and the section generators.  st is this.state.                 *)
(***************************************************************************)
\* Variant: the loading test also waits for the agent inventory.
stillLoadingUntilAgents(st) == NumKeys(st.report.obj) = 0 \/ st.agents = <<>>

stillLoadingDataFromServer(st) == NumKeys(st.report.obj) = 0

getMonkeyDuration(st) ==
  IF st.report.obj.overview.monkey_duration # ""
  THEN [tag |-> "Fragment", children |-> <<st.report.obj.overview.monkey_duration>>]
  ELSE EmptyFragment

\* Variant: the hostname list is rendered without the uniqueness set.
manualHostnameItemsNoSet(st) ==
  Map(getManuallyStartedAgents(st.agents),
      LAMBDA agent : getMachineHostname(getMachineByAgent(agent, st.machines)))

\* The <li> items of the manual-start list (lines 140 and 166)
manualHostnameItems(st) ==
  LET manualMonkeyHostnames ==
        Map(getManuallyStartedAgents(st.agents),
            LAMBDA agent : getMachineHostname(getMachineByAgent(agent, st.machines)))
  IN  SpreadNewSet(manualMonkeyHostnames)

generateReportOverviewSection(st) ==
  LET report == st.report.obj IN
  [ id |-> "overview",
    issuesFound |-> report.glance.exploited_cnt > 0,
    improveHint |-> ~(report.glance.exploited_cnt > 0),
    startTime |-> report.overview.monkey_start_time,
    duration |-> getMonkeyDuration(st),
    manualHostnames |-> manualHostnameItems(st),
    stolen |-> st.stolenCredentials,
    configured |-> st.configuredCredentials,
    exploits |-> IF Len(report.overview.config_exploits) > 0
                 THEN [text |-> "The Monkey attempted the following exploitation methods:",
                       items |-> report.overview.config_exploits]
                 ELSE [text |-> "No exploiters were enabled.", items |-> <<>>],
    ips |-> IF Len(report.overview.config_ips) > 0
            THEN [text |-> "The Monkey scans the following IPs:",
                  items |-> report.overview.config_ips]
            ELSE [text |-> "", items |-> <<>>],
    localScanNote |-> ~report.overview.config_scan ]

\* Variant: the heading is rendered whatever the number of findings.
generateSegmentationSectionAlways(st) ==
  [ id |-> "segmentation",
    items |-> Map(st.report.obj.cross_segment_issues, crossSegmentIssueReport) ]

generateSegmentationSection(st) ==
  IF Len(st.report.obj.cross_segment_issues) = 0
  THEN EmptyText
  ELSE [ id |-> "segmentation",
         items |-> Map(st.report.obj.cross_segment_issues, crossSegmentIssueReport) ]

\* Variant: a scanned count of zero is shown as 0%.
exploitPercentageGuarded(st) ==
  IF Len(st.report.obj.glance.scanned) = 0
  THEN [kind |-> "finite", num |-> 0, den |-> 1]
  ELSE Divide(100 * st.report.obj.glance.exploited_cnt, Len(st.report.obj.glance.scanned))

\* let exploitPercentage (lines 242-243)
exploitPercentage(st) ==
  Divide(100 * st.report.obj.glance.exploited_cnt, Len(st.report.obj.glance.scanned))

generateReportGlanceSection(st) ==
  [ id |-> "glance",
    scannedCount |-> Len(st.report.obj.glance.scanned),
    exploitedCount |-> st.report.obj.glance.exploited_cnt,
    percent |-> exploitPercentage(st),
    percentText |-> MathRound(exploitPercentage(st)),
    scanned |-> st.report.obj.glance.scanned,
    stolenCredentials |-> st.stolenCredentials ]

generateReportFooter == [id |-> "footer"]

NoRemediation == " 'No remediation available'"

Markdown(text, styled) == [tag |-> "ReactMarkdown", styled |-> styled, children |-> text]

\* Variant: the warning replaces the remediation instead of preceding it.
remediationBlockWarningOnly(issue) ==
  LET remediation ==
        IF Has(issue, "remediation_suggestion") /\ issue.remediation_suggestion # "undefined"
        THEN Markdown(issue.remediation_suggestion, TRUE)
        ELSE Markdown(NoRemediation, FALSE)
  IN  IF Get(issue, "type") = "ZerologonExploiter" /\ Get(issue, "password_restored") = "false"
      THEN <<zerologonOverviewWithFailedPassResetWarning>>
      ELSE <<remediation>>

\* The value of `remediation` when generateIssue builds reportContentComponent
\* (lines 297-306 and 315-321), as the list of nodes it puts in the document.
remediationBlock(issue) ==
  LET remediation ==
        IF Has(issue, "remediation_suggestion") /\ issue.remediation_suggestion # "undefined"
        THEN Markdown(issue.remediation_suggestion, TRUE)
        ELSE Markdown(NoRemediation, FALSE)
  IN  IF Get(issue, "type") = "ZerologonExploiter" /\ Get(issue, "password_restored") = "false"
      THEN << zerologonOverviewWithFailedPassResetWarning,
              [tag |-> "br"],
              [tag |-> "li", children |-> <<remediation>>] >>
      ELSE <<remediation>>

\* JSON.stringify(issue): a key whose value is undefined is left out
JSONStringify(issue) == [k \in {f \in DOMAIN issue : issue[f] # "undefined"} |-> issue[k]]

generateIssue(issue) ==
  LET description ==
        IF Has(issue, "description") /\ issue.description # "undefined"
        THEN Markdown(issue.description, TRUE)
        ELSE EmptyText
  IN  [ tag |-> "li",
        key |-> JSONStringify(issue),
        remediation |-> remediationBlock(issue),
        collapsible |-> description ]

getTunnelIssue(machineId, allTunnels) ==
  LET tunnelIssue == tunnelIssueReportByMachine(machineId, allTunnels)
  IN  IF tunnelIssue # Null
      THEN [tag |-> "li", key |-> "tunneling-issue", children |-> <<tunnelIssue>>]
      ELSE Null

\* Variant: the tunnel entry is put before the machine's own issues.
machineGroupTunnelFirst(machineId, issues, st, allTunnels) ==
  LET machine == getMachineByID(parseInt(machineId), st.machines) IN
  [ tag |-> "li",
    key |-> machineId,
    hostname |-> getMachineHostname(machine),
    machineIPs |-> getMachineIPs(machine),
    ol |-> <<getTunnelIssue(parseInt(machineId), allTunnels)>>
           \o Map(issues[machineId], generateIssue) ]

\* The element pushed for one key of issues (lines 337-349)
machineGroup(machineId, issues, st, allTunnels) ==
  LET machine == getMachineByID(parseInt(machineId), st.machines) IN
  [ tag |-> "li",
    key |-> machineId,
    hostname |-> getMachineHostname(machine),
    machineIPs |-> getMachineIPs(machine),
    ol |-> Map(issues[machineId], generateIssue)
           \o <<getTunnelIssue(parseInt(machineId), allTunnels)>> ]

generateIssues(issues, st, allTunnels) ==
  Map(ObjectKeys(issues), LAMBDA machineId : machineGroup(machineId, issues, st, allTunnels))

generateReportRecommendationsSection(st, allTunnels) ==
  [ id |-> "recommendations",
    title |-> NumKeys(st.report.obj.recommendations.issues) # 0,
    groups |-> generateIssues(st.report.obj.recommendations.issues, st, allTunnels) ]

ReportLoader == [id |-> "loader", loading |-> TRUE]

\* render(): allTunnels is assigned first and read by getTunnelIssue in the same pass.
render(st) ==
  LET allTunnels == getAllTunnels(st.agents, st.machines) IN
  [ allTunnels |-> allTunnels,
    header |-> "security",
    content |-> IF stillLoadingDataFromServer(st)
                THEN <<ReportLoader>>
                ELSE << generateReportOverviewSection(st),
                        generateSegmentationSection(st),
                        generateReportRecommendationsSection(st, allTunnels),
                        generateReportGlanceSection(st),
                        generateReportFooter >> ]

(***************************************************************************)
(* The data the parent and the server may supply.                          *)
(***************************************************************************)
Overview(duration, exploits, ips, scan) ==
  [ monkey_start_time |-> "2024-01-01 10:00",
    monkey_duration |-> duration,
    config_exploits |-> exploits,
    config_ips |-> ips,
    config_scan |-> scan ]

Report(ref, overview, exploited, scanned, issues, segments) ==
  [ ref |-> ref,
    obj |-> [ overview |-> overview,
              glance |-> [exploited_cnt |-> exploited, scanned |-> scanned],
              recommendations |-> [issues |-> issues],
              cross_segment_issues |-> segments ] ]

\* The placeholder {} a parent passes while the report is not loaded.
EmptyReport(ref) == [ref |-> ref, obj |-> <<>>]

\* An issue with the given type; a field given as "absent" is not a key of it.
Issue(type, remediation, restored, description) ==
  LET all == [ type |-> type,
               remediation_suggestion |-> remediation,
               password_restored |-> restored,
               description |-> description ]
  IN  [k \in {f \in DOMAIN all : all[f] # "absent"} |-> all[k]]

Issues ==
  { Issue(t, r, p, d) :
      t \in {"ZerologonExploiter", "SSHExploiter"},
      r \in {"absent", "undefined", "null", "Change the password"},
      p \in {"absent", "undefined", "true", "false"},
      d \in {"absent", "undefined", "Details"} }

ZerologonFailed == Issue("ZerologonExploiter", "Change the password", "false", "Details")

SSHIssue == Issue("SSHExploiter", "absent", "absent", "absent")

Machine(id, hostname) == [id |-> id, hostname |-> hostname, ips |-> <<"10.0.0.1">>]

\* Machines 1 and 3 share a hostname.
AllMachines == <<Machine(1, "alpha"), Machine(2, "beta"), Machine(3, "alpha")>>

MachineLists == {SubSeq(AllMachines, 1, n) : n \in 0..3}

Agent(machine_id, manual, relay) == [machine_id |-> machine_id, manual |-> manual, relay |-> relay]

Agents == {Agent(m, manual, relay) : m \in 1..3, manual \in BOOLEAN, relay \in {0, 1}}

FullOverview == Overview("5 minutes", <<"SSHExploiter">>, <<"10.0.0.0/24">>, TRUE)

\* The report objects of the lifecycle specification: two distinct empty
\* objects, and two distinct objects with the same contents.
ReportPool ==
  { EmptyReport(0),
    EmptyReport(1),
    Report(2, Overview("", <<>>, <<>>, FALSE), 0, <<>>, <<>>, <<>>),
    Report(3, FullOverview, 1, <<"alpha", "beta">>,
           [k \in {"1", "2"} |-> IF k = "1" THEN <<ZerologonFailed>> ELSE <<SSHIssue, SSHIssue>>],
           <<"segment A to segment B">>),
    Report(4, FullOverview, 1, <<"alpha", "beta">>,
           [k \in {"1", "2"} |-> IF k = "1" THEN <<ZerologonFailed>> ELSE <<SSHIssue, SSHIssue>>],
           <<"segment A to segment B">>) }

\* What the server may answer the four requests with.
Responses ==
  [ stolenCredentials : {<<"stolen-1">>},
    configuredCredentials : {<<>>, <<"configured-1">>},
    agents : {<<Agent(1, TRUE, 0)>>, <<Agent(1, TRUE, 0), Agent(2, FALSE, 1), Agent(1, TRUE, 0)>>},
    machines : {<<>>, SubSeq(AllMachines, 1, 2)} ]

(***************************************************************************)
(* The lifecycle.                                                          *)
(***************************************************************************)
\* No render() call yet; this.allTunnels is [] from the constructor.
NotRendered == [allTunnels |-> <<>>, header |-> "none", content |-> <<>>]

\* constructor(props)
Constructed(report) ==
  /\ phase = "constructed"
  /\ props = [report |-> report]
  /\ state = [ report |-> report,
               stolenCredentials |-> <<>>,
               configuredCredentials |-> <<>>,
               agents |-> <<>>,
               machines |-> <<>> ]
  /\ fetch = [f \in Slots |-> "idle"]
  /\ response = [f \in Slots |-> <<>>]
  /\ interval = "undefined"
  /\ timers = {}
  /\ rendered = NotRendered
  /\ lateUpdates = 0
  /\ event = "constructor"

Init == \E report \in ReportPool : Constructed(report)

\* Variant: the report is compared by contents, not by reference.
componentDidUpdateByContents(prevProps, st) ==
  IF props'.report.obj # prevProps.report.obj
  THEN SetState(st, "report", props'.report)
  ELSE st

\* componentDidUpdate(prevProps), with this.props being props'; the state it leaves
componentDidUpdate(prevProps, st) ==
  IF props'.report.ref # prevProps.report.ref
  THEN SetState(st, "report", props'.report)
  ELSE st

\* The first render and componentDidMount: the four requests go out.
ComponentDidMount ==
  /\ phase = "constructed"
  /\ phase' = "mounted"
  /\ rendered' = render(state)
  /\ fetch' = [f \in Slots |-> "pending"]
  /\ response' \in Responses
  /\ event' = "componentDidMount"
  /\ UNCHANGED <<props, state, interval, timers, lateUpdates>>

\* The .then callback of one request: setState({slot: body}).  On a mounted
\* component React merges the update, renders, and runs componentDidUpdate with
\* the unchanged props; on an unmounted one the update is dropped.
Resolved(slot) ==
  /\ fetch[slot] = "pending"
  /\ fetch' = [fetch EXCEPT ![slot] = "done"]
  /\ event' = slot
  /\ UNCHANGED <<phase, props, response, interval, timers>>
  /\ IF phase = "mounted"
     THEN /\ state' = componentDidUpdate(props, SetState(state, slot, response[slot]))
          /\ rendered' = render(state')
          /\ UNCHANGED lateUpdates
     ELSE /\ lateUpdates' = lateUpdates + 1
          /\ UNCHANGED <<state, rendered>>

StolenCredentialsResolved == Resolved("stolenCredentials")

ConfiguredCredentialsResolved == Resolved("configuredCredentials")

AgentsResolved == Resolved("agents")

MachinesResolved == Resolved("machines")

\* Variant: a rejected request is caught and an error marker is stored.
RejectedStoresError(slot) ==
  /\ fetch[slot] = "pending"
  /\ fetch' = [fetch EXCEPT ![slot] = "failed"]
  /\ event' = "rejected"
  /\ state' = SetState(state, slot, <<"error">>)
  /\ rendered' = IF phase = "mounted" THEN render(state') ELSE rendered
  /\ UNCHANGED <<phase, props, response, interval, timers, lateUpdates>>

\* A request is rejected: no .then callback runs, and there is no .catch.
Rejected(slot) ==
  /\ fetch[slot] = "pending"
  /\ fetch' = [fetch EXCEPT ![slot] = "failed"]
  /\ event' = "rejected"
  /\ UNCHANGED <<phase, props, state, response, interval, timers, rendered, lateUpdates>>

FetchRejected == \E slot \in Slots : Rejected(slot)

\* The parent renders the component again with a report prop: render with the
\* new props, componentDidUpdate, and the render its setState causes.
PropUpdate ==
  /\ phase = "mounted"
  /\ \E report \in ReportPool : props' = [report |-> report]
  /\ state' = componentDidUpdate(props, state)
  /\ rendered' = render(state')
  /\ event' = "componentDidUpdate"
  /\ UNCHANGED <<phase, fetch, response, interval, timers, lateUpdates>>

\* Variant: the pending requests are aborted on unmount.
ComponentWillUnmountAborting ==
  /\ phase = "mounted"
  /\ phase' = "unmounted"
  /\ timers' = timers \ {interval}
  /\ fetch' = [f \in Slots |-> IF fetch[f] = "pending" THEN "failed" ELSE fetch[f]]
  /\ event' = "componentWillUnmount"
  /\ UNCHANGED <<props, state, response, interval, rendered, lateUpdates>>

\* componentWillUnmount: clearInterval(this.interval)
ComponentWillUnmount ==
  /\ phase = "mounted"
  /\ phase' = "unmounted"
  /\ timers' = timers \ {interval}
  /\ event' = "componentWillUnmount"
  /\ UNCHANGED <<props, state, fetch, response, interval, rendered, lateUpdates>>

Next ==
  \/ ComponentDidMount
  \/ StolenCredentialsResolved
  \/ ConfiguredCredentialsResolved
  \/ AgentsResolved
  \/ MachinesResolved
  \/ FetchRejected
  \/ PropUpdate
  \/ ComponentWillUnmount

Spec == Init /\ [][Next]_vars

(***************************************************************************)
(* Properties of the lifecycle.                                            *)
(***************************************************************************)
\* The ids of the nodes a render output puts in the document, in order.
ShownIds(r) == Map(Visible(r.content), LAMBDA c : c.id)

AllSections == {"overview", "segmentation", "recommendations", "glance", "footer"}

\* C1: whatever the four requests have done and whatever props were supplied,
\* the last render shows the loading indicator, and none of the five sections,
\* exactly when the report in this.state has no key; with at least one key it
\* shows sections and no loading indicator.
C1_LoaderIffReportHasNoKeys ==
  rendered # NotRendered =>
    /\ (NumKeys(state.report.obj) = 0) <=> ("loader" \in Range(ShownIds(rendered)))
    /\ NumKeys(state.report.obj) = 0 =>
         /\ Visible(rendered.content) = <<ReportLoader>>
         /\ Range(ShownIds(rendered)) \cap AllSections = {}
    /\ NumKeys(state.report.obj) > 0 =>
         /\ AllSections \ {"segmentation"} \subseteq Range(ShownIds(rendered))
         /\ Range(ShownIds(rendered)) \subseteq AllSections

\* Sections on screen while all four requests are still pending.
C1_Witness ==
  /\ phase = "mounted"
  /\ \A f \in Slots : fetch[f] = "pending"
  /\ NumKeys(state.report.obj) > 0
  /\ "overview" \in Range(ShownIds(rendered))

\* C2: the callback of a request changes no slot but its own (on a mounted
\* component it stores the response there), so once all four have completed
\* on a mounted component every slot holds its own response, whatever the order.
C2_CompletionsAreIndependent ==
  /\ [][\A f \in Slots :
          (fetch[f] = "pending" /\ fetch'[f] = "done") =>
            /\ \A g \in Slots \ {f} : state'[g] = state[g]
            /\ state'.report = state.report
            /\ phase = "mounted" => state'[f] = response[f]]_vars
  /\ []((phase = "mounted" /\ \A f \in Slots : fetch[f] = "done") =>
          \A f \in Slots : state[f] = response[f])

\* All four completed, the request started first completing last.
C2_Witness ==
  /\ phase = "mounted"
  /\ \A f \in Slots : fetch[f] = "done"
  /\ event = "stolenCredentials"
  /\ state.agents # <<>> /\ state.machines # <<>> /\ state.configuredCredentials # <<>>

\* C3: this.state.report is always the report prop supplied last; a prop update
\* starts no request and touches no other slot, adopts a report whose reference
\* differs, and leaves the state as it is when the reference is the same.
C3_ReportFollowsProps ==
  /\ [](state.report = props.report)
  /\ [][event' = "componentDidUpdate" =>
          /\ fetch' = fetch
          /\ \A g \in Slots : state'[g] = state[g]
          /\ props'.report.ref # props.report.ref => state'.report = props'.report
          /\ props'.report.ref = props.report.ref => state' = state]_vars

\* A report with the contents of another one adopted after a request completed.
C3_Witness ==
  /\ event = "componentDidUpdate"
  /\ props.report.ref = 4
  /\ state.report.ref = 4
  /\ fetch["agents"] = "done"

\* C4: a rejected request changes neither this.state nor what is rendered, it
\* stays failed, its slot stays the initial empty list, and this.state never
\* gets a slot beyond the five of the constructor.
C4_RejectionWritesNothing ==
  /\ [](\A f \in Slots : fetch[f] = "failed" => state[f] = <<>>)
  /\ [](DOMAIN state = Slots \cup {"report"})
  /\ [][\A f \in Slots : fetch[f] = "failed" => fetch'[f] = "failed"]_vars
  /\ [][event' = "rejected" =>
          state' = state /\ rendered' = rendered /\ phase' = phase]_vars

\* One request failed, another one completed, a non-empty report on screen.
C4_Witness ==
  /\ phase = "mounted"
  /\ fetch["agents"] = "failed" /\ state.agents = <<>>
  /\ fetch["machines"] = "done" /\ state.machines # <<>>
  /\ NumKeys(state.report.obj) > 0

\* C5: for a report with keys the document holds Overview, Segmentation,
\* Recommendations, Glance, Footer in this order when cross_segment_issues is
\* not empty, and the same without Segmentation when it is empty.
C5_SectionOrder ==
  (rendered # NotRendered /\ NumKeys(state.report.obj) > 0) =>
    ShownIds(rendered) =
      IF Len(state.report.obj.cross_segment_issues) # 0
      THEN <<"overview", "segmentation", "recommendations", "glance", "footer">>
      ELSE <<"overview", "recommendations", "glance", "footer">>

\* A report without segmentation findings on screen.
C5_Witness ==
  /\ rendered # NotRendered
  /\ NumKeys(state.report.obj) > 0
  /\ state.report.obj.cross_segment_issues = <<>>
  /\ Len(ShownIds(rendered)) = 4

\* C10: componentWillUnmount changes no slot of this.state and no request,
\* and clears no timer, none being armed; a request pending at unmount can
\* still complete afterwards.
C10_UnmountCancelsNothing ==
  /\ [][(phase = "mounted" /\ phase' = "unmounted") =>
          state' = state /\ fetch' = fetch /\ timers' = timers /\ interval' = interval]_vars
  /\ [](timers = {} /\ interval = "undefined")
  /\ [](\A f \in Slots :
          (phase = "unmounted" /\ fetch[f] = "pending") => ENABLED Resolved(f))

\* A callback has called setState after componentWillUnmount.
C10_Witness ==
  /\ phase = "unmounted"
  /\ lateUpdates > 0
  /\ event \in Slots
  /\ fetch[event] = "done"

(***************************************************************************)
(* One render pass over the states the lifecycle can put the component in: *)
(* a report from the parent, the agent and machine inventories from the    *)
(* server.                                                                 *)
(***************************************************************************)
PlainReport(issues) == Report(2, FullOverview, 1, <<"alpha", "beta">>, issues, <<>>)

\* The component after the agent and machine callbacks stored their
\* responses, the render pass they cause being due.
AwaitingRender(report, agents, machines) ==
  /\ phase = "mounted"
  /\ props = [report |-> report]
  /\ state = [ report |-> report,
               stolenCredentials |-> <<>>,
               configuredCredentials |-> <<>>,
               agents |-> agents,
               machines |-> machines ]
  /\ fetch = [f \in Slots |-> IF f \in {"agents", "machines"} THEN "done" ELSE "pending"]
  /\ response = [f \in Slots |-> IF f = "agents" THEN agents
                                 ELSE IF f = "machines" THEN machines ELSE <<>>]
  /\ interval = "undefined"
  /\ timers = {}
  /\ rendered = NotRendered
  /\ lateUpdates = 0
  /\ event = "setState"

\* One machine with one issue, over every shape of issue.
IssueShapeInputs ==
  \E i \in Issues, ms \in {<<>>, SubSeq(AllMachines, 1, 2)} :
    AwaitingRender(PlainReport([k \in {"1"} |-> <<i>>]), <<Agent(2, FALSE, 1)>>, ms)

IssueLists == SeqUpTo({ZerologonFailed, SSHIssue}, MaxIssues)

\* Every grouping of issues by machine, with and without relayed agents.
GroupingInputs ==
  \E keys \in SUBSET Range(KeyOrder) :
    \E m \in [keys -> IssueLists],
       as \in {<<>>, <<Agent(2, FALSE, 1)>>, <<Agent(3, TRUE, 1), Agent(1, FALSE, 2)>>},
       ms \in {<<>>, SubSeq(AllMachines, 1, 2), AllMachines} :
      AwaitingRender(PlainReport(m), as, ms)

\* Every inventory of agents that relay nothing, over every machine inventory.
AgentInputs ==
  \E n \in 0..MaxAgents :
    \E as \in [1..n -> {a \in Agents : a.relay = 0}], ms \in MachineLists :
      AwaitingRender(PlainReport(<<>>), as, ms)

\* Every glance count and overview setting.
GlanceInputs ==
  \E d \in {"", "5 minutes"}, x \in {<<>>, <<"SSHExploiter">>}, c \in BOOLEAN,
     e \in 0..MaxScanned, n \in 0..MaxScanned,
     seg \in {<<>>, <<"segment A to segment B">>} :
    AwaitingRender(Report(2, Overview(d, x, <<>>, c), e, [j \in 1..n |-> "alpha"], <<>>, seg),
                   <<>>, <<>>)

InitRender == IssueShapeInputs \/ GroupingInputs \/ AgentInputs \/ GlanceInputs

RenderPass ==
  /\ phase = "mounted"
  /\ event = "setState"
  /\ rendered' = render(state)
  /\ event' = "render"
  /\ UNCHANGED <<phase, props, state, fetch, response, interval, timers, lateUpdates>>

NextRender == RenderPass

SpecRender == InitRender /\ [][NextRender]_vars

(***************************************************************************)
(* Properties of what a render pass puts in the document.                  *)
(***************************************************************************)
\* The last render output shows the sections (not the loading indicator).
SectionsRendered == rendered # NotRendered /\ NumKeys(state.report.obj) > 0

RenderedOverview == rendered.content[1]

RenderedRecommendations == rendered.content[3]

RenderedGlance == rendered.content[4]

ReportIssues == state.report.obj.recommendations.issues

\* The nodes of a remediation block in document order: list items opened,
\* line breaks left out.
BlockNodes(block) ==
  SelectSeq(Concat(Map(block, LAMBDA n : IF n.tag = "li" THEN n.children ELSE <<n>>)),
            LAMBDA n : n.tag # "br")

\* The text the normal remediation block of an issue shows.
ExpectedRemediationText(issue) ==
  IF "remediation_suggestion" \in DOMAIN issue /\ issue.remediation_suggestion # "undefined"
  THEN issue.remediation_suggestion
  ELSE NoRemediation

\* type is 'ZerologonExploiter' and password_restored is the value false
IsFailedZerologon(issue) ==
  /\ "type" \in DOMAIN issue /\ issue.type = "ZerologonExploiter"
  /\ "password_restored" \in DOMAIN issue /\ issue.password_restored = "false"

\* C6: the remediation block of every rendered issue is one markdown node with
\* the issue's remediation_suggestion, or with the placeholder when that key is
\* missing or undefined; for a ZerologonExploiter issue whose password_restored
\* is false, and for no other, the warning passage comes first and the same
\* markdown node directly after it (a line break apart).
C6_RemediationBlock ==
  SectionsRendered =>
    \A g \in Range(RenderedRecommendations.groups) :
      \A i \in 1..Len(ReportIssues[g.key]) :
        LET issue == ReportIssues[g.key][i]
            nodes == BlockNodes(g.ol[i].remediation)
            last  == nodes[Len(nodes)]
        IN  /\ Len(nodes) = (IF IsFailedZerologon(issue) THEN 2 ELSE 1)
            /\ last.tag = "ReactMarkdown"
            /\ last.children = ExpectedRemediationText(issue)
            /\ IsFailedZerologon(issue) => nodes[1] = zerologonOverviewWithFailedPassResetWarning
            /\ IsFailedZerologon(issue) => Len(g.ol[i].remediation) = 3
            /\ ~IsFailedZerologon(issue) =>
                 zerologonOverviewWithFailedPassResetWarning \notin Range(nodes)

\* A failed Zerologon issue without remediation_suggestion: warning and placeholder.
C6_Witness ==
  /\ SectionsRendered
  /\ \E g \in Range(RenderedRecommendations.groups) :
       /\ Len(ReportIssues[g.key]) = 1
       /\ IsFailedZerologon(ReportIssues[g.key][1])
       /\ "remediation_suggestion" \notin DOMAIN ReportIssues[g.key][1]
       /\ BlockNodes(g.ol[1].remediation) =
            <<zerologonOverviewWithFailedPassResetWarning, Markdown(NoRemediation, FALSE)>>

\* The positions of the manually started agents, and the hostname the
\* inventory gives the machine of the agent at a position.
ManualPositions == {i \in 1..Len(state.agents) : state.agents[i].manual}

HostnameAt(i) == getMachineHostname(getMachineByAgent(state.agents[i], state.machines))

FirstManualPosition(h) ==
  CHOOSE i \in ManualPositions :
    /\ HostnameAt(i) = h
    /\ \A j \in ManualPositions : HostnameAt(j) = h => i <= j

\* C7: the manual-start list holds the hostname of every manually started
\* agent's machine exactly once, holds nothing else, and is ordered by the
\* first manually started agent of each hostname.
C7_ManualHostnamesOnce ==
  SectionsRendered =>
    LET list == RenderedOverview.manualHostnames IN
    /\ \A i \in ManualPositions :
         Cardinality({j \in 1..Len(list) : list[j] = HostnameAt(i)}) = 1
    /\ \A j \in 1..Len(list) : \E i \in ManualPositions : list[j] = HostnameAt(i)
    /\ \A j, k \in 1..Len(list) :
         j < k => FirstManualPosition(list[j]) < FirstManualPosition(list[k])

\* Two manually started agents on one machine and an automatically started
\* one elsewhere: one entry.
C7_Witness ==
  /\ SectionsRendered
  /\ Len(state.agents) = 3
  /\ Cardinality(ManualPositions) = 2
  /\ \A i \in ManualPositions : state.agents[i].machine_id = 2
  /\ \E i \in 1..3 : state.agents[i].machine_id = 1
  /\ Len(state.machines) = 3
  /\ RenderedOverview.manualHostnames = <<"beta">>

\* C8: the percentage of the Glance section is 100 * exploited_cnt divided by
\* the number of scanned hosts when there is one, and NaN or Infinity (never
\* a finite number) when there is none.
C8_ExploitPercentage ==
  SectionsRendered =>
    LET scanned == Len(state.report.obj.glance.scanned)
        exploited == state.report.obj.glance.exploited_cnt
        percent == RenderedGlance.percent
    IN  /\ scanned > 0 =>
             /\ percent.kind = "finite"
             /\ percent.num * scanned = 100 * exploited * percent.den
        /\ scanned = 0 =>
             /\ percent.kind \in {"NaN", "Infinity"}
             /\ RenderedGlance.percentText.kind \in {"NaN", "Infinity"}

\* A report with keys and no scanned host on screen.
C8_Witness ==
  /\ SectionsRendered
  /\ state.report.obj.glance.scanned = <<>>
  /\ state.report.obj.glance.exploited_cnt = 0
  /\ RenderedGlance.percent = NaN

\* The tunnel list of the current agents and machines has a tunnel issue for
\* the machine a key of issues names.
HasTunnelIssue(key) ==
  tunnelIssueReportByMachine(parseInt(key), getAllTunnels(state.agents, state.machines)) # Null

IsTunnelEntry(e) == "children" \in DOMAIN e /\ e.children[1].tag = "TunnelIssue"

\* C9: the Recommendations section has one group per key of
\* recommendations.issues; the entries of a group are the machine's issues in
\* list order, then one tunnel entry exactly when the tunnel list of this
\* render pass has a tunnel issue for the machine.
C9_IssuesThenTunnel ==
  SectionsRendered =>
    LET groups == RenderedRecommendations.groups IN
    /\ \A key \in DOMAIN ReportIssues :
         Cardinality({j \in 1..Len(groups) : groups[j].key = key}) = 1
    /\ \A j \in 1..Len(groups) : groups[j].key \in DOMAIN ReportIssues
    /\ \A g \in Range(groups) :
         LET entries == Visible(g.ol)
             n == Len(ReportIssues[g.key])
         IN  /\ Len(entries) = n + (IF HasTunnelIssue(g.key) THEN 1 ELSE 0)
             /\ \A i \in 1..n : entries[i] = generateIssue(ReportIssues[g.key][i])
             /\ \A i \in 1..n : ~IsTunnelEntry(entries[i])
             /\ HasTunnelIssue(g.key) => IsTunnelEntry(entries[n + 1])

\* Machine 1 relayed traffic and has two issues; machine 2 has issues and no tunnel.
C9_Witness ==
  /\ SectionsRendered
  /\ DOMAIN ReportIssues = {"1", "2"}
  /\ Len(ReportIssues["1"]) = 2 /\ Len(ReportIssues["2"]) = 1
  /\ LET groups == RenderedRecommendations.groups IN
       /\ Len(Visible(groups[1].ol)) = 3
       /\ IsTunnelEntry(Visible(groups[1].ol)[3])
       /\ Len(Visible(groups[2].ol)) = 1

====
